---- MODULE Spec2Model ----
(***************************************************************************)
(* Disaster-ontology service: the in-memory ontology `onto` of app.py, the *)
(* POST handlers that mutate and save it, the GET handlers that read it,   *)
(* the persisted RDF document, and the SPARQL engine of sparql_engine.py   *)
(* that parses the document into its own graph.                            *)
(*                                                                         *)
(* Strings are sequences of tokens: a token is " ", "_", "#" or a maximal   *)
(* run of other characters, so that str.replace(" ", "_") and              *)
(* str.split("#") are computed and not assumed.  JSON null / an absent     *)
(* field is the empty tuple None.                                          *)
(***************************************************************************)
EXTENDS Integers, Sequences, FiniteSets, TLC

VARIABLES
    classes,    \* onto: class name -> set of declared parent classes
    inds,       \* onto: individual id -> [is_a, property value lists]
    doc,        \* the file at ONTOLOGY_PATH: [state, classes, inds]
    lock,       \* holder of the ontology's write lock (`with onto:`), or NoThread
    pc,         \* per request thread: position in its handler
    req,        \* per request thread: the parsed request.json
    new,        \* per request thread: the handler's local new_disaster / new_vol / ...
    err,        \* per request thread: the exception caught by `except Exception as e`
    pre,        \* per request thread: the store as it was when the handler entered `with onto:`
    nreq,       \* number of POST requests received so far
    readView,   \* body of the GET /disasters response being returned
    acked,      \* ids returned in a 201 response so far
    graph,      \* SPARQLEngine.graph: the triples parsed at construction
    queryView,  \* result of the run_predefined_query call being returned
    crashed     \* the server process has been killed

vars == <<classes, inds, doc, lock, pc, req, new, err, pre, nreq, readView,
          acked, graph, queryView, crashed>>

----------------------------------------------------------------------------
(* Bounds *)

MaxRequests == 2

NumThreads == 2

Threads == 1 .. NumThreads

NoThread == 0

None == << >>

----------------------------------------------------------------------------
(* Names *)

Disaster == <<"Disaster">>
Flood == <<"Flood">>
FlashFlood == <<"FlashFlood">>
Landslide == <<"Landslide">>
Location == <<"Location">>
District == <<"District">>
Province == <<"Province">>
Shelter == <<"Shelter">>
Volunteer == <<"Volunteer">>
Resource == <<"Resource">>
MedicalResource == <<"MedicalResource">>
Cyclone == <<"Cyclone">>
Drought == <<"Drought">>
Tsunami == <<"Tsunami">>
AffectedPopulation == <<"AffectedPopulation">>

Kaiju == <<"KaijuAttack">>
Gadget == <<"Gadget">>
Zone == <<"Zone">>
Colombo == <<"Colombo">>
Shelter1 == <<"Shelter1">>
Flood2023 == <<"Flood2023">>

Active == <<"Active">>
NA == <<"N/A">>
Unknown == <<"Unknown">>

\* str.replace(" ", "_")
Replace(s) == [i \in DOMAIN s |-> IF s[i] = " " THEN "_" ELSE s[i]]

\* the IRI of the entity named id, in the namespace every query binds to
\* the prefix d:
IriOf(id) == <<"http://www.srilanka.gov/disaster.owl", "#">> \o id

\* value_str.split("#")[-1]
LastSegment(s) ==
    LET hashes == {i \in DOMAIN s : s[i] = "#"}
        last == IF hashes = {} THEN 0
                ELSE CHOOSE i \in hashes : \A j \in hashes : j <= i
    IN  SubSeq(s, last + 1, Len(s))

----------------------------------------------------------------------------
(* The ontology as data *)

Blank ==
    [is_a |-> {}, hasName |-> << >>, severityLevel |-> << >>, status |-> << >>,
     dateOccurred |-> << >>, occursIn |-> << >>, contactNumber |-> << >>,
     skillLevel |-> << >>, assignedTo |-> << >>, quantityAvailable |-> << >>,
     locatedIn |-> << >>, capacity |-> << >>, currentOccupancy |-> << >>,
     affectedCount |-> << >>]

Put(f, k, v) == [x \in DOMAIN f \cup {k} |-> IF x = k THEN v ELSE f[x]]

\* rdfs:subClassOf*, upwards from c
RECURSIVE Ancestors(_, _)
Ancestors(cls, S) ==
    LET up == S \cup UNION {cls[c] : c \in S \cap DOMAIN cls}
    IN  IF up = S THEN S ELSE Ancestors(cls, up)

\* all subclasses of the classes in S, downwards
RECURSIVE Descendants(_, _)
Descendants(cls, S) ==
    LET down == S \cup {c \in DOMAIN cls : cls[c] \cap S # {}}
    IN  IF down = S THEN S ELSE Descendants(cls, down)

\* isinstance(individual, Class)
IsInstance(cls, ind, C) == \E c \in ind.is_a : C \in Ancestors(cls, {c})

\* faulty variant of Instances: only the individuals that declare C itself
InstancesDirect(cls, ins, C) == {i \in DOMAIN ins : C \in ins[i].is_a}

\* Class.instances(): the individuals of the class and of its descendants
Instances(cls, ins, C) ==
    {i \in DOMAIN ins : ins[i].is_a \cap Descendants(cls, {C}) # {}}

\* onto[name] / getattr(onto, name, default): the entity with that name, of
\* whatever kind; owlready2 returns None (and raises nothing) when there is none
Lookup(name) ==
    IF name \in DOMAIN classes THEN "class"
    ELSE IF name \in DOMAIN inds THEN "individual"
    ELSE "none"

\* Class(id): a new individual, or the existing one of that name, which
\* gains the class when it is not yet an instance of it
NewIndividual(C, id) ==
    IF id \in DOMAIN inds
    THEN IF IsInstance(classes, inds[id], C) THEN inds
         ELSE [inds EXCEPT ![id].is_a = @ \cup {C}]
    ELSE Put(inds, id, [Blank EXCEPT !.is_a = {C}])

\* types.new_class(name, (Parent,)) inside `with onto:`
NewClass(name, parent) == Put(classes, name, {parent})

Snapshot == [classes |-> classes, inds |-> inds]

----------------------------------------------------------------------------
(* Requests *)

NoReq == [kind |-> "none", name |-> None, type |-> None, create |-> FALSE,
          ref |-> None, severity |-> None, date |-> None, contact |-> None,
          skill |-> None, quantity |-> 0]

DisasterRequests ==
    {[NoReq EXCEPT !.kind = "disaster", !.name = n, !.type = ty, !.create = c,
                   !.ref = l, !.severity = <<"High">>, !.date = d]
        : n \in {None, <<"Kandy", " ", "Flood">>, <<"Kandy", "_", "Flood">>},
          ty \in {Flood, Shelter, Kaiju, Colombo}, c \in BOOLEAN,
          l \in {None, Colombo}, d \in {<<"2024-05-01">>}}

VolunteerRequests ==
    {[NoReq EXCEPT !.kind = "volunteer", !.name = n, !.ref = s,
                   !.contact = <<"999">>, !.skill = <<"Medical">>]
        : n \in {None, <<"Jane", " ", "Doe">>}, s \in {None, Shelter1}}

ResourceRequests ==
    {[NoReq EXCEPT !.kind = "resource", !.name = n, !.type = ty, !.quantity = q]
        : n \in {<<"SuperPills">>}, ty \in {MedicalResource, Gadget},
          q \in {500}}

ParentRefs == {None, Colombo}

LocationRequests ==
    {[NoReq EXCEPT !.kind = "location", !.name = n, !.type = ty, !.create = c,
                   !.ref = l]
        : n \in {<<"Kandy", "_", "Flood">>}, ty \in {Province, Zone, Colombo},
          c \in BOOLEAN, l \in ParentRefs}

Requests ==
    DisasterRequests \cup VolunteerRequests \cup ResourceRequests \cup
    LocationRequests

----------------------------------------------------------------------------
(* Initial state: app.py has loaded the document *)

InitClasses ==
    (Disaster :> {}) @@ (Flood :> {Disaster}) @@ (FlashFlood :> {Flood}) @@
    (Landslide :> {Disaster}) @@ (Location :> {}) @@ (District :> {Location}) @@
    (Province :> {Location}) @@ (Shelter :> {}) @@ (Volunteer :> {}) @@
    (Resource :> {}) @@ (MedicalResource :> {Resource}) @@
    (Cyclone :> {Disaster}) @@ (Drought :> {Disaster}) @@
    (Tsunami :> {Disaster}) @@ (AffectedPopulation :> {})

InitInds ==
    (Colombo :> [Blank EXCEPT !.is_a = {District}, !.hasName = <<Colombo>>]) @@
    (Shelter1 :> [Blank EXCEPT !.is_a = {Shelter}, !.hasName = <<Shelter1>>]) @@
    (Flood2023 :> [Blank EXCEPT !.is_a = {FlashFlood}, !.hasName = <<Flood2023>>,
                                !.severityLevel = << <<"Low">> >>,
                                !.status = << <<"Resolved">> >>,
                                !.occursIn = <<Colombo>>])

NoView ==
    [active |-> FALSE, path |-> "", status |-> 0, rows |-> {}, at |-> << >>]

NoQuery == [active |-> FALSE, rows |-> {}, at |-> << >>, expect |-> {}]

NoGraph == [loaded |-> FALSE, classes |-> << >>, inds |-> << >>]

Init ==
    /\ classes = InitClasses
    /\ inds = InitInds
    /\ doc = [state |-> "complete", classes |-> InitClasses, inds |-> InitInds]
    /\ lock = NoThread
    /\ pc = [t \in Threads |-> "idle"]
    /\ req = [t \in Threads |-> NoReq]
    /\ new = [t \in Threads |-> None]
    /\ err = [t \in Threads |-> "none"]
    /\ pre = [t \in Threads |-> << >>]
    /\ nreq = 0
    /\ readView = NoView
    /\ acked = {}
    /\ graph = NoGraph
    /\ queryView = NoQuery
    /\ crashed = FALSE

----------------------------------------------------------------------------
(* Steps shared by the POST handlers *)

store == <<classes, inds>>
local == <<req, new, err, pre>>
views == <<readView, graph, queryView>>

\* where the handler goes after `with onto:` is entered
FirstStep(r) == IF r.kind \in {"disaster", "location"} THEN "class" ELSE "create"

\* the request is served by the first thread that is free
Free(t) == pc[t] = "idle" /\ \A u \in Threads : u < t => pc[u] # "idle"

\* a POST arrives and is given a thread, which reads `data = request.json`
\* and reaches `with onto:`
Arrive(t) ==
    /\ ~crashed
    /\ Free(t)
    /\ nreq < MaxRequests
    /\ nreq' = nreq + 1
    /\ pc' = [pc EXCEPT ![t] = "enter"]
    /\ UNCHANGED <<store, doc, lock, local, acked, views, crashed>>

\* Graph.acquire_write_lock() returns only when no other thread holds the lock
Acquirable(t) == lock = NoThread

\* `with onto:` -- Namespace.__enter__ takes the world's write lock; r is the
\* request the thread has read
Enter(t, r) ==
    /\ ~crashed
    /\ pc[t] = "enter"
    /\ Acquirable(t)
    /\ lock' = t
    /\ req' = [req EXCEPT ![t] = r]
    /\ pre' = [pre EXCEPT ![t] = Snapshot]
    /\ pc' = [pc EXCEPT ![t] = FirstStep(r)]
    /\ UNCHANGED <<store, doc, new, err, nreq, acked, views, crashed>>

\* an exception leaves the `with` block: nothing is undone
Raise(t, e) ==
    /\ err' = [err EXCEPT ![t] = e]
    /\ pc' = [pc EXCEPT ![t] = "fail"]

\* the locals of a handler whose response has been returned
Forget(t) ==
    /\ req' = [req EXCEPT ![t] = NoReq]
    /\ new' = [new EXCEPT ![t] = None]
    /\ err' = [err EXCEPT ![t] = "none"]
    /\ pre' = [pre EXCEPT ![t] = << >>]

\* onto.save(file=ONTOLOGY_PATH): open(file, "wb") truncates the document
SaveOpen(t) ==
    /\ ~crashed
    /\ pc[t] = "save"
    /\ doc' = [doc EXCEPT !.state = "partial"]
    /\ pc' = [pc EXCEPT ![t] = "write"]
    /\ UNCHANGED <<store, lock, local, nreq, acked, views, crashed>>

\* onto.save: open() raises (OSError); the document is untouched
SaveError(t) ==
    /\ ~crashed
    /\ pc[t] = "save"
    /\ Raise(t, "OSError")
    /\ UNCHANGED <<store, doc, lock, req, new, pre, nreq, acked, views, crashed>>

\* faulty variant of Saved: the classes are written, the individuals are not
SavedClassesOnly ==
    [state |-> "complete", classes |-> classes, inds |-> doc.inds]

\* what onto.save writes: every class and individual of the ontology
Saved == [state |-> "complete", classes |-> classes, inds |-> inds]

\* onto.save: the whole graph is written and the file closed
SaveWrite(t) ==
    /\ ~crashed
    /\ pc[t] = "write"
    /\ doc' = Saved
    /\ pc' = [pc EXCEPT ![t] = "done"]
    /\ UNCHANGED <<store, lock, local, nreq, acked, views, crashed>>

\* the `with` block is left (lock released) and 201 with the id is returned
Respond201(t) ==
    /\ ~crashed
    /\ pc[t] = "done"
    /\ lock' = NoThread
    /\ acked' = acked \cup {[id |-> new[t], kind |-> req[t].kind]}
    /\ pc' = [pc EXCEPT ![t] = "idle"]
    /\ Forget(t)
    /\ UNCHANGED <<store, doc, nreq, views, crashed>>

\* the exception leaves the `with` block (lock released) and 400 is returned
Respond400(t) ==
    /\ ~crashed
    /\ pc[t] = "fail"
    /\ lock' = NoThread
    /\ pc' = [pc EXCEPT ![t] = "idle"]
    /\ Forget(t)
    /\ UNCHANGED <<store, doc, nreq, acked, views, crashed>>

\* the server process is killed: its memory is gone, the document stays
Crash ==
    /\ ~crashed
    /\ crashed' = TRUE
    /\ classes' = << >>
    /\ inds' = << >>
    /\ lock' = NoThread
    /\ pc' = [t \in Threads |-> "idle"]
    /\ req' = [t \in Threads |-> NoReq]
    /\ new' = [t \in Threads |-> None]
    /\ err' = [t \in Threads |-> "none"]
    /\ pre' = [t \in Threads |-> << >>]
    /\ readView' = NoView
    /\ UNCHANGED <<doc, nreq, acked, graph, queryView>>

----------------------------------------------------------------------------
(* POST /disasters/add *)

\* dynamic type creation
DisasterClass(t) ==
    /\ ~crashed
    /\ pc[t] = "class"
    /\ req[t].kind = "disaster"
    /\ classes' = IF req[t].create /\ Lookup(req[t].type) = "none"
                  THEN NewClass(req[t].type, Disaster)
                  ELSE classes
    /\ pc' = [pc EXCEPT ![t] = "create"]
    /\ UNCHANGED <<inds, doc, lock, local, nreq, acked, views, crashed>>

\* disaster_class = getattr(onto, disaster_type, onto.Flood);
\* new_disaster = disaster_class(disaster_name.replace(" ", "_"))
DisasterCreate(t) ==
    /\ ~crashed
    /\ pc[t] = "create"
    /\ req[t].kind = "disaster"
    /\ IF req[t].name = None
       THEN Raise(t, "AttributeError") /\ UNCHANGED <<inds, new>>
       ELSE IF Lookup(req[t].type) # "class"
       THEN Raise(t, "TypeError") /\ UNCHANGED <<inds, new>>
       ELSE /\ inds' = NewIndividual(req[t].type, Replace(req[t].name))
            /\ new' = [new EXCEPT ![t] = Replace(req[t].name)]
            /\ pc' = [pc EXCEPT ![t] = "name"]
            /\ UNCHANGED err
    /\ UNCHANGED <<classes, doc, lock, req, pre, nreq, acked, views, crashed>>

\* new_disaster.hasName = [disaster_name]
DisasterName(t) ==
    /\ ~crashed
    /\ pc[t] = "name"
    /\ req[t].kind = "disaster"
    /\ inds' = [inds EXCEPT ![new[t]].hasName = <<req[t].name>>]
    /\ pc' = [pc EXCEPT ![t] = "severity"]
    /\ UNCHANGED <<classes, doc, lock, local, nreq, acked, views, crashed>>

\* new_disaster.severityLevel = [severity]
DisasterSeverity(t) ==
    /\ ~crashed
    /\ pc[t] = "severity"
    /\ req[t].kind = "disaster"
    /\ inds' = [inds EXCEPT ![new[t]].severityLevel = <<req[t].severity>>]
    /\ pc' = [pc EXCEPT ![t] = "status"]
    /\ UNCHANGED <<classes, doc, lock, local, nreq, acked, views, crashed>>

\* new_disaster.status = ["Active"]
DisasterStatus(t) ==
    /\ ~crashed
    /\ pc[t] = "status"
    /\ inds' = [inds EXCEPT ![new[t]].status = <<Active>>]
    /\ pc' = [pc EXCEPT ![t] = "link"]
    /\ UNCHANGED <<classes, doc, lock, local, nreq, acked, views, crashed>>

\* dateOccurred when a date is given; occursIn when onto[location] exists
DisasterLink(t) ==
    /\ ~crashed
    /\ pc[t] = "link"
    /\ req[t].kind = "disaster"
    /\ inds' = [inds EXCEPT
                  ![new[t]].dateOccurred =
                      IF req[t].date # None THEN <<req[t].date>> ELSE @,
                  ![new[t]].occursIn =
                      IF req[t].ref # None /\ Lookup(req[t].ref) # "none"
                      THEN <<req[t].ref>> ELSE @]
    /\ pc' = [pc EXCEPT ![t] = "save"]
    /\ UNCHANGED <<classes, doc, lock, local, nreq, acked, views, crashed>>

----------------------------------------------------------------------------
(* POST /volunteers/add *)

\* vol_id = f"Volunteer_{name.replace(' ', '_')}"; new_vol = onto.Volunteer(vol_id)
VolunteerCreate(t) ==
    /\ ~crashed
    /\ pc[t] = "create"
    /\ req[t].kind = "volunteer"
    /\ IF req[t].name = None
       THEN Raise(t, "AttributeError") /\ UNCHANGED <<inds, new>>
       ELSE LET vol_id == <<"Volunteer", "_">> \o Replace(req[t].name)
            IN  /\ inds' = NewIndividual(Volunteer, vol_id)
                /\ new' = [new EXCEPT ![t] = vol_id]
                /\ pc' = [pc EXCEPT ![t] = "name"]
                /\ UNCHANGED err
    /\ UNCHANGED <<classes, doc, lock, req, pre, nreq, acked, views, crashed>>

\* new_vol.hasName = [name]
VolunteerName(t) ==
    /\ ~crashed
    /\ pc[t] = "name"
    /\ req[t].kind = "volunteer"
    /\ inds' = [inds EXCEPT ![new[t]].hasName = <<req[t].name>>]
    /\ pc' = [pc EXCEPT ![t] = "contact"]
    /\ UNCHANGED <<classes, doc, lock, local, nreq, acked, views, crashed>>

\* new_vol.contactNumber = [contact]
VolunteerContact(t) ==
    /\ ~crashed
    /\ pc[t] = "contact"
    /\ inds' = [inds EXCEPT ![new[t]].contactNumber = <<req[t].contact>>]
    /\ pc' = [pc EXCEPT ![t] = "skill"]
    /\ UNCHANGED <<classes, doc, lock, local, nreq, acked, views, crashed>>

\* new_vol.skillLevel = [skill]
VolunteerSkill(t) ==
    /\ ~crashed
    /\ pc[t] = "skill"
    /\ inds' = [inds EXCEPT ![new[t]].skillLevel = <<req[t].skill>>]
    /\ pc' = [pc EXCEPT ![t] = "link"]
    /\ UNCHANGED <<classes, doc, lock, local, nreq, acked, views, crashed>>

\* assignedTo when a shelter id is given and onto[shelter_id] exists
VolunteerLink(t) ==
    /\ ~crashed
    /\ pc[t] = "link"
    /\ req[t].kind = "volunteer"
    /\ inds' = [inds EXCEPT
                  ![new[t]].assignedTo =
                      IF req[t].ref # None /\ Lookup(req[t].ref) # "none"
                      THEN <<req[t].ref>> ELSE @]
    /\ pc' = [pc EXCEPT ![t] = "save"]
    /\ UNCHANGED <<classes, doc, lock, local, nreq, acked, views, crashed>>

----------------------------------------------------------------------------
(* POST /resources/add *)

\* res_class = getattr(onto, res_type, onto.Resource);
\* res_id = f"Resource_{name.replace(' ', '_')}"; new_res = res_class(res_id)
ResourceCreate(t) ==
    /\ ~crashed
    /\ pc[t] = "create"
    /\ req[t].kind = "resource"
    /\ IF req[t].name = None
       THEN Raise(t, "AttributeError") /\ UNCHANGED <<inds, new>>
       ELSE IF Lookup(req[t].type) # "class"
       THEN Raise(t, "TypeError") /\ UNCHANGED <<inds, new>>
       ELSE LET res_id == <<"Resource", "_">> \o Replace(req[t].name)
            IN  /\ inds' = NewIndividual(req[t].type, res_id)
                /\ new' = [new EXCEPT ![t] = res_id]
                /\ pc' = [pc EXCEPT ![t] = "name"]
                /\ UNCHANGED err
    /\ UNCHANGED <<classes, doc, lock, req, pre, nreq, acked, views, crashed>>

\* new_res.hasName = [name]
ResourceName(t) ==
    /\ ~crashed
    /\ pc[t] = "name"
    /\ req[t].kind = "resource"
    /\ inds' = [inds EXCEPT ![new[t]].hasName = <<req[t].name>>]
    /\ pc' = [pc EXCEPT ![t] = "quantity"]
    /\ UNCHANGED <<classes, doc, lock, local, nreq, acked, views, crashed>>

\* new_res.quantityAvailable = [quantity]
ResourceQuantity(t) ==
    /\ ~crashed
    /\ pc[t] = "quantity"
    /\ inds' = [inds EXCEPT ![new[t]].quantityAvailable = <<req[t].quantity>>]
    /\ pc' = [pc EXCEPT ![t] = "save"]
    /\ UNCHANGED <<classes, doc, lock, local, nreq, acked, views, crashed>>

----------------------------------------------------------------------------
(* POST /locations/add *)

\* loc_class = getattr(onto, loc_type, onto.District);
\* loc_id = name.replace(" ", "_"); dynamic class creation check
LocationClass(t) ==
    /\ ~crashed
    /\ pc[t] = "class"
    /\ req[t].kind = "location"
    /\ IF req[t].name = None
       THEN Raise(t, "AttributeError") /\ UNCHANGED classes
       ELSE /\ classes' = IF Lookup(req[t].type) = "none" /\ req[t].create
                          THEN NewClass(req[t].type, Location)
                          ELSE classes
            /\ pc' = [pc EXCEPT ![t] = "create"]
            /\ UNCHANGED err
    /\ UNCHANGED <<inds, doc, lock, req, new, pre, nreq, acked, views, crashed>>

\* new_loc = loc_class(loc_id)
LocationCreate(t) ==
    /\ ~crashed
    /\ pc[t] = "create"
    /\ req[t].kind = "location"
    /\ IF Lookup(req[t].type) # "class"
       THEN Raise(t, "TypeError") /\ UNCHANGED <<inds, new>>
       ELSE /\ inds' = NewIndividual(req[t].type, Replace(req[t].name))
            /\ new' = [new EXCEPT ![t] = Replace(req[t].name)]
            /\ pc' = [pc EXCEPT ![t] = "name"]
            /\ UNCHANGED err
    /\ UNCHANGED <<classes, doc, lock, req, pre, nreq, acked, views, crashed>>

\* new_loc.hasName = [name]
LocationName(t) ==
    /\ ~crashed
    /\ pc[t] = "name"
    /\ req[t].kind = "location"
    /\ inds' = [inds EXCEPT ![new[t]].hasName = <<req[t].name>>]
    /\ pc' = [pc EXCEPT ![t] = "link"]
    /\ UNCHANGED <<classes, doc, lock, local, nreq, acked, views, crashed>>

\* locatedIn when a parent id is given and onto[parent_id] exists
LocationLink(t) ==
    /\ ~crashed
    /\ pc[t] = "link"
    /\ req[t].kind = "location"
    /\ inds' = [inds EXCEPT
                  ![new[t]].locatedIn =
                      IF req[t].ref # None /\ Lookup(req[t].ref) # "none"
                      THEN <<req[t].ref>> ELSE @]
    /\ pc' = [pc EXCEPT ![t] = "save"]
    /\ UNCHANGED <<classes, doc, lock, local, nreq, acked, views, crashed>>

----------------------------------------------------------------------------
(* GET /disasters *)

\* _serialize_disaster(d), the fields read from the store
\* `d.name in pop.hasName[0]`: sub is a run of consecutive tokens of s
Contains(s, sub) ==
    \E k \in 0 .. Len(s) - Len(sub) : SubSeq(s, k + 1, k + Len(sub)) = sub

RECURSIVE Sum(_, _)
Sum(f, S) ==
    IF S = {} THEN 0
    ELSE LET x == CHOOSE y \in S : TRUE IN f[x] + Sum(f, S \ {x})

\* the affected-population records whose name holds the identifier of d
Matching(cls, ins, d) ==
    {p \in Instances(cls, ins, AffectedPopulation) :
        ins[p].hasName # << >> /\ Contains(ins[p].hasName[1], d)}

\* pop.hasName[0] is read of every record and pop.affectedCount[0] of every
\* matching one: an empty list raises IndexError
SerializeRaises(cls, ins, d) ==
    \/ \E p \in Instances(cls, ins, AffectedPopulation) : ins[p].hasName = << >>
    \/ \E p \in Matching(cls, ins, d) : ins[p].affectedCount = << >>

AffectedCount(cls, ins, d) ==
    Sum([p \in Matching(cls, ins, d) |-> ins[p].affectedCount[1]],
        Matching(cls, ins, d))

SerializeDisaster(cls, ins, d) ==
    [id |-> d,
     affected_count |-> AffectedCount(cls, ins, d),
     name |-> IF ins[d].hasName # << >> THEN ins[d].hasName[1] ELSE d,
     severity |-> IF ins[d].severityLevel # << >>
                  THEN ins[d].severityLevel[1] ELSE NA,
     status |-> IF ins[d].status # << >> THEN ins[d].status[1] ELSE Unknown,
     location |-> IF ins[d].occursIn # << >>
                  THEN ins[d].occursIn[1] ELSE Unknown]

\* the handler takes no lock: it reads the ontology as it is
GetDisasters ==
    /\ ~crashed
    /\ ~readView.active
    /\ readView' =
          IF \E d \in Instances(classes, inds, Disaster) :
                 SerializeRaises(classes, inds, d)
          THEN [active |-> TRUE, path |-> "/disasters", status |-> 500,
                rows |-> {}, at |-> Snapshot]
          ELSE [active |-> TRUE, path |-> "/disasters", status |-> 200,
                rows |-> {SerializeDisaster(classes, inds, d) :
                             d \in Instances(classes, inds, Disaster)},
                at |-> Snapshot]
    /\ UNCHANGED <<store, doc, lock, pc, local, nreq, acked, graph, queryView,
                   crashed>>

\* jsonify(data) is sent
ReadReturn ==
    /\ ~crashed
    /\ readView.active
    /\ readView' = NoView
    /\ UNCHANGED <<store, doc, lock, pc, local, nreq, acked, graph, queryView,
                   crashed>>

----------------------------------------------------------------------------
(* sparql_engine.py *)

\* SPARQLEngine.__init__: the document is parsed into the engine's own graph;
\* ui.py builds the engine once (st.cache_resource)
EngineInit ==
    /\ ~graph.loaded
    /\ doc.state = "complete"
    /\ graph' = [loaded |-> TRUE, classes |-> doc.classes, inds |-> doc.inds]
    /\ UNCHANGED <<store, doc, lock, pc, local, nreq, acked, readView,
                   queryView, crashed>>

\* ?x rdf:type/rdfs:subClassOf* C
TypePath(g, C) ==
    {x \in DOMAIN g.inds :
        \E c \in g.inds[x].is_a : C \in Ancestors(g.classes, {c})}

\* OPTIONAL { ?s p ?v }: every value, or one row with ?v unbound
Optional(vals) ==
    IF vals = << >> THEN {None} ELSE {vals[i] : i \in DOMAIN vals}

\* OPTIONAL { ?s d:occursIn ?loc . ?loc d:hasName ?location }
OptionalVia(g, refs) ==
    LET found == UNION {{g.inds[refs[i]].hasName[j] :
                            j \in DOMAIN g.inds[refs[i]].hasName} :
                        i \in {k \in DOMAIN refs : refs[k] \in DOMAIN g.inds}}
    IN  IF found = {} THEN {None} ELSE found

\* _format_value on a literal or an unbound variable
FormatValue(v) == IF v = None THEN NA ELSE LastSegment(v)

\* PREDEFINED_QUERIES["all_disasters"], as a set of formatted rows
AllDisasters(g) ==
    UNION {{[disaster |-> d, name |-> FormatValue(n),
             severity |-> FormatValue(sv), location |-> FormatValue(l)] :
               n \in Optional(g.inds[d].hasName),
               sv \in Optional(g.inds[d].severityLevel),
               l \in OptionalVia(g, g.inds[d].occursIn)} :
           d \in TypePath(g, Disaster)}

\* run_predefined_query("all_disasters") on the engine's graph; `expect` notes
\* the disasters the API had acknowledged when the query ran
RunQuery ==
    /\ graph.loaded
    /\ ~queryView.active
    /\ queryView' = [active |-> TRUE, rows |-> AllDisasters(graph), at |-> graph,
                     expect |-> {a.id : a \in {b \in acked :
                                   b.id \in Instances(classes, inds, Disaster)}}]
    /\ UNCHANGED <<store, doc, lock, pc, local, nreq, acked, readView, graph,
                   crashed>>

\* the result table is shown
QueryReturn ==
    /\ queryView.active
    /\ queryView' = NoQuery
    /\ UNCHANGED <<store, doc, lock, pc, local, nreq, acked, readView, graph,
                   crashed>>

----------------------------------------------------------------------------

Next ==
    \/ \E t \in Threads : Arrive(t)
    \/ \E t \in Threads, r \in Requests : Enter(t, r)
    \/ \E t \in Threads : DisasterClass(t)
    \/ \E t \in Threads : DisasterCreate(t)
    \/ \E t \in Threads : DisasterName(t)
    \/ \E t \in Threads : DisasterSeverity(t)
    \/ \E t \in Threads : DisasterStatus(t)
    \/ \E t \in Threads : DisasterLink(t)
    \/ \E t \in Threads : VolunteerCreate(t)
    \/ \E t \in Threads : VolunteerName(t)
    \/ \E t \in Threads : VolunteerContact(t)
    \/ \E t \in Threads : VolunteerSkill(t)
    \/ \E t \in Threads : VolunteerLink(t)
    \/ \E t \in Threads : ResourceCreate(t)
    \/ \E t \in Threads : ResourceName(t)
    \/ \E t \in Threads : ResourceQuantity(t)
    \/ \E t \in Threads : LocationClass(t)
    \/ \E t \in Threads : LocationCreate(t)
    \/ \E t \in Threads : LocationName(t)
    \/ \E t \in Threads : LocationLink(t)
    \/ \E t \in Threads : SaveOpen(t)
    \/ \E t \in Threads : SaveError(t)
    \/ \E t \in Threads : SaveWrite(t)
    \/ \E t \in Threads : Respond201(t)
    \/ \E t \in Threads : Respond400(t)
    \/ GetDisasters
    \/ ReadReturn
    \/ Crash

Spec == Init /\ [][Next]_vars

\* the API serving disaster requests, with the query engine of the dashboard
NextEngine ==
    \/ \E t \in Threads : Arrive(t)
    \/ \E t \in Threads, r \in DisasterRequests : Enter(t, r)
    \/ \E t \in Threads : DisasterClass(t)
    \/ \E t \in Threads : DisasterCreate(t)
    \/ \E t \in Threads : DisasterName(t)
    \/ \E t \in Threads : DisasterSeverity(t)
    \/ \E t \in Threads : DisasterStatus(t)
    \/ \E t \in Threads : DisasterLink(t)
    \/ \E t \in Threads : SaveOpen(t)
    \/ \E t \in Threads : SaveWrite(t)
    \/ \E t \in Threads : Respond201(t)
    \/ \E t \in Threads : Respond400(t)
    \/ GetDisasters
    \/ ReadReturn
    \/ EngineInit
    \/ RunQuery
    \/ QueryReturn

SpecEngine == Init /\ [][NextEngine]_vars

----------------------------------------------------------------------------
(* Query evaluation: rdflib's SPARQL algebra on the engine's graph *)

\* The binding of a variable in a solution is a 1-tuple, an unbound variable
\* the empty tuple.  The values of property list vals, as bindings:
Bound(vals) == {<<vals[i]>> : i \in DOMAIN vals}

\* faulty variant of LeftJoin: an inner join
InnerJoin(B, unbound) == B

\* OPTIONAL { ... }: the block's solutions B, or, when it has none, the one
\* solution that leaves the block's variables unbound
LeftJoin(B, unbound) == IF B = {} THEN {unbound} ELSE B

\* ?x rdf:type C
DirectType(g, C) == {x \in DOMAIN g.inds : C \in g.inds[x].is_a}

\* { ?x p ?y . ?y d:hasName ?n }: the names of the referenced individuals
NamesVia(g, refs) ==
    UNION {Bound(g.inds[refs[i]].hasName) :
              i \in {k \in DOMAIN refs : refs[k] \in DOMAIN g.inds}}

\* faulty variant of KeyLess: an unbound key is above every literal
KeyLessUnboundLast(a, b) ==
    IF b = << >> THEN a # << >> ELSE (a # << >> /\ a[1] < b[1])

\* ORDER BY: _val puts an unbound key below every literal
KeyLess(a, b) == IF a = << >> THEN b # << >> ELSE (b # << >> /\ a[1] < b[1])

\* sorted(res, key=..., reverse=desc): x goes strictly before y
Before(a, b, desc) == IF desc THEN KeyLess(b, a) ELSE KeyLess(a, b)

\* Python's sorted is stable: the indices 1..n of keys in sorted order, equal
\* keys in their original order (also with reverse=True)
RECURSIVE SortedIndices(_, _, _)
SortedIndices(keys, n, desc) ==
    IF n = 0 THEN << >>
    ELSE LET prev == SortedIndices(keys, n - 1, desc)
             pos == Cardinality({j \in DOMAIN prev :
                                  ~Before(keys[n], keys[prev[j]], desc)})
         IN  [i \in 1 .. n |-> IF i <= pos THEN prev[i]
                               ELSE IF i = pos + 1 THEN n ELSE prev[i - 1]]

\* the orders in which the evaluation may enumerate the solution set S
Enumerations(S) ==
    {f \in [1 .. Cardinality(S) -> S] :
        \A i, j \in DOMAIN f : f[i] = f[j] => i = j}

\* an unbound variable
Unbound == << >>

\* FILTER(?quantity < 1000)
LowStock == 1000

\* faulty variant of BelowLowStock: the limit itself counts as low
AtMostLowStock(q) == q <= LowStock

BelowLowStock(q) == q < LowStock

\* faulty variant of HasSpace: a full shelter counts as available
NotOverfull(capacity, occupancy) == capacity >= occupancy

\* FILTER(?capacity > ?occupancy); `if capacity > occupancy:`
HasSpace(capacity, occupancy) == capacity > occupancy

\* the string literals ORDER BY ?severity compares, in code-point order
Lexical == << <<"High">>, <<"Low">>, <<"Medium">> >>

LexRank(s) == CHOOSE i \in DOMAIN Lexical : Lexical[i] = s

\* COUNT(?disaster) over OPTIONAL { ?disaster d:occursIn ?district }
OccursInCount(g, district) ==
    Cardinality({x \in DOMAIN g.inds :
                    \E i \in DOMAIN g.inds[x].occursIn :
                        g.inds[x].occursIn[i] = district})

QueryIds ==
    {"all_disasters", "critical_resources", "district_disasters",
     "available_shelters", "shelter_capacity", "advanced_volunteers"}

\* the solutions of the WHERE clause (after GROUP BY and the SELECT
\* expressions) of PREDEFINED_QUERIES[id]
Solutions(g, id) ==
    CASE id = "all_disasters" ->
           UNION {{[disaster |-> <<d>>, name |-> n, severity |-> sv,
                    location |-> l] :
                      n \in LeftJoin(Bound(g.inds[d].hasName), Unbound),
                      sv \in LeftJoin(Bound(g.inds[d].severityLevel), Unbound),
                      l \in LeftJoin(NamesVia(g, g.inds[d].occursIn), Unbound)} :
                  d \in TypePath(g, Disaster)}
      [] id = "critical_resources" ->
           UNION {{[resource |-> <<r>>, name |-> n, quantity |-> q] :
                      q \in {b \in Bound(g.inds[r].quantityAvailable) :
                                BelowLowStock(b[1])},
                      n \in LeftJoin(Bound(g.inds[r].hasName), Unbound)} :
                  r \in TypePath(g, Resource)}
      [] id = "district_disasters" ->
           UNION {{[district |-> <<d>>, districtName |-> n,
                    disasterCount |-> <<OccursInCount(g, d)>>] :
                      n \in LeftJoin(Bound(g.inds[d].hasName), Unbound)} :
                  d \in DirectType(g, District)}
      [] id = "available_shelters" ->
           UNION {{[shelter |-> <<x>>, name |-> n, capacity |-> co[1],
                    occupancy |-> co[2],
                    available |-> <<co[1][1] - co[2][1]>>, status |-> st] :
                      co \in {p \in Bound(g.inds[x].capacity) \X
                                     Bound(g.inds[x].currentOccupancy) :
                                 HasSpace(p[1][1], p[2][1])},
                      n \in LeftJoin(Bound(g.inds[x].hasName), Unbound),
                      st \in LeftJoin(Bound(g.inds[x].status), Unbound)} :
                  x \in DirectType(g, Shelter)}
      [] id = "shelter_capacity" ->
           UNION {{[shelter |-> <<x>>, name |-> n, capacity |-> c,
                    occupancy |-> o,
                    available |-> IF c # Unbound /\ o # Unbound
                                  THEN <<c[1] - o[1]>> ELSE Unbound] :
                      n \in LeftJoin(Bound(g.inds[x].hasName), Unbound),
                      c \in LeftJoin(Bound(g.inds[x].capacity), Unbound),
                      o \in LeftJoin(Bound(g.inds[x].currentOccupancy),
                                     Unbound)} :
                  x \in DirectType(g, Shelter)}
      [] id = "advanced_volunteers" ->
           UNION {{[volunteer |-> <<v>>, name |-> n, shelter |-> sh.shelter,
                    shelterName |-> sh.shelterName, contact |-> c] :
                      n \in LeftJoin(Bound(g.inds[v].hasName), Unbound),
                      sh \in LeftJoin(
                          UNION {{[shelter |-> <<g.inds[v].assignedTo[i]>>,
                                   shelterName |-> nm] :
                                     nm \in NamesVia(g,
                                              <<g.inds[v].assignedTo[i]>>)} :
                                 i \in DOMAIN g.inds[v].assignedTo},
                          [shelter |-> Unbound, shelterName |-> Unbound]),
                      c \in LeftJoin(Bound(g.inds[v].contactNumber), Unbound)} :
                  v \in {x \in DirectType(g, Volunteer) :
                            \E i \in DOMAIN g.inds[x].skillLevel :
                                g.inds[x].skillLevel[i] = <<"Advanced">>}}

\* the ORDER BY key of a solution: the value of the ordering variable
SortKey(sol, id) ==
    CASE id = "all_disasters" ->
           IF sol.severity = Unbound THEN Unbound
           ELSE <<LexRank(sol.severity[1])>>
      [] id = "critical_resources" -> sol.quantity
      [] id = "district_disasters" -> sol.disasterCount
      [] id \in {"available_shelters", "shelter_capacity"} -> sol.available
      [] OTHER -> Unbound

\* ORDER BY DESC(...)
Descending(id) ==
    id \in {"district_disasters", "available_shelters", "shelter_capacity"}

\* evalOrderBy on the solutions in the order enum (a query without ORDER BY
\* keeps that order)
OrderBy(enum, id) ==
    LET keys == [i \in DOMAIN enum |-> SortKey(enum[i], id)]
        idx == SortedIndices(keys, Len(enum), Descending(id))
    IN  [i \in DOMAIN enum |-> enum[idx[i]]]

\* _format_value on an IRI, on a string literal and on a number: str(value),
\* cut after the last "#"
CellIri(b) == FormatValue(IF b = Unbound THEN None ELSE IriOf(b[1]))
CellLit(b) == FormatValue(IF b = Unbound THEN None ELSE b[1])
CellNum(b) == FormatValue(IF b = Unbound THEN None ELSE <<ToString(b[1])>>)

\* headers = [str(var) for var in qres.vars]
Header(id) ==
    CASE id = "all_disasters" -> <<"disaster", "name", "severity", "location">>
      [] id = "critical_resources" -> <<"resource", "name", "quantity">>
      [] id = "district_disasters" ->
           <<"district", "districtName", "disasterCount">>
      [] id = "available_shelters" ->
           <<"shelter", "name", "capacity", "occupancy", "available", "status">>
      [] id = "shelter_capacity" ->
           <<"shelter", "name", "capacity", "occupancy", "available">>
      [] id = "advanced_volunteers" ->
           <<"volunteer", "name", "shelter", "shelterName", "contact">>

\* [self._format_value(col) for col in row]
Row(sol, id) ==
    CASE id = "all_disasters" ->
           <<CellIri(sol.disaster), CellLit(sol.name), CellLit(sol.severity),
             CellLit(sol.location)>>
      [] id = "critical_resources" ->
           <<CellIri(sol.resource), CellLit(sol.name), CellNum(sol.quantity)>>
      [] id = "district_disasters" ->
           <<CellIri(sol.district), CellLit(sol.districtName),
             CellNum(sol.disasterCount)>>
      [] id = "available_shelters" ->
           <<CellIri(sol.shelter), CellLit(sol.name), CellNum(sol.capacity),
             CellNum(sol.occupancy), CellNum(sol.available),
             CellLit(sol.status)>>
      [] id = "shelter_capacity" ->
           <<CellIri(sol.shelter), CellLit(sol.name), CellNum(sol.capacity),
             CellNum(sol.occupancy), CellNum(sol.available)>>
      [] id = "advanced_volunteers" ->
           <<CellIri(sol.volunteer), CellLit(sol.name), CellIri(sol.shelter),
             CellLit(sol.shelterName), CellLit(sol.contact)>>

\* query strings that graph.query or the loop over its result rejects: a
\* syntax error, a SPARQL update, a SERVICE call that cannot be reached, an
\* ASK query (whose result is a bool and not rows)
Texts == {"malformed", "update", "service", "ask"}

\* the exception run_query catches for text, and the list `results` as far
\* as lines 18-28 had built it when the exception was raised
Raised(text) ==
    CASE text \in {"malformed", "update"} ->
           [error |-> "ParseException", results |-> << >>]
      [] text = "service" ->
           [error |-> "URLError", results |-> << <<"s">> >>]
      [] text = "ask" -> [error |-> "TypeError", results |-> << >>]

\* faulty variant of Failure: the rows built so far are returned
FailureWithRows(e, partial) ==
    [success |-> FALSE, error |-> e, results |-> partial]

\* the except clause of run_query, and the else branch of run_predefined_query
Failure(e, partial) == [success |-> FALSE, error |-> e, results |-> << >>]

\* the try branch of run_query: the header row, then the formatted rows
Success(sols, id) ==
    LET results == <<Header(id)>> \o [i \in DOMAIN sols |-> Row(sols[i], id)]
    IN  [success |-> TRUE, results |-> results, count |-> Len(results) - 1]

\* faulty variant of GraphAfterQuery: an update text is executed
GraphAfterUpdate(g, text) ==
    IF text = "update" THEN [g EXCEPT !.inds = Put(@, Zone, Blank)] ELSE g

\* Graph.query evaluates queries only: whatever the text, the graph is as
\* it was
GraphAfterQuery(g, text) == g

\* run_predefined_query(id) for an id of the catalog; enum is the order in
\* which the evaluation enumerates the solutions
RunPredefined(id, enum) ==
    /\ graph.loaded
    /\ ~queryView.active
    /\ graph' = GraphAfterQuery(graph, id)
    /\ queryView' = [active |-> TRUE, query |-> id, at |-> graph, enum |-> enum,
                     sols |-> OrderBy(enum, id),
                     response |-> Success(OrderBy(enum, id), id)]
    /\ UNCHANGED <<store, doc, lock, pc, local, nreq, acked, readView, crashed>>

\* run_predefined_query(id) for an id that is not in the catalog
RunUnknown ==
    /\ graph.loaded
    /\ ~queryView.active
    /\ graph' = graph
    /\ queryView' = [active |-> TRUE, query |-> "unknown", at |-> graph,
                     enum |-> << >>, sols |-> << >>,
                     response |-> Failure("Query not found", << >>)]
    /\ UNCHANGED <<store, doc, lock, pc, local, nreq, acked, readView, crashed>>

\* run_query(text) for a text that raises
RunText(text) ==
    /\ graph.loaded
    /\ ~queryView.active
    /\ graph' = GraphAfterQuery(graph, text)
    /\ queryView' = [active |-> TRUE, query |-> text, at |-> graph,
                     enum |-> << >>, sols |-> << >>,
                     response |-> Failure(Raised(text).error,
                                          Raised(text).results)]
    /\ UNCHANGED <<store, doc, lock, pc, local, nreq, acked, readView, crashed>>

RdfType == <<"http://www.w3.org/1999/02/22-rdf-syntax-ns", "#", "type">>

\* the try branch of run_query for a CONSTRUCT query: qres.vars is None, so
\* no header row is appended, and the rows are the formatted triples
Constructed(triples) ==
    LET results == [i \in 1 .. Len(triples) |->
                       <<FormatValue(triples[i][1]), FormatValue(triples[i][2]),
                         FormatValue(triples[i][3])>>]
    IN  [success |-> TRUE, results |-> results,
         count |-> IF results # << >> THEN Len(results) - 1 ELSE 0]

\* run_query("CONSTRUCT { ?s rdf:type d:District }
\*            WHERE { ?s rdf:type d:District }"); enum is the order in which
\* the evaluation enumerates the districts
RunConstruct(enum) ==
    /\ graph.loaded
    /\ ~queryView.active
    /\ graph' = GraphAfterQuery(graph, "construct")
    /\ queryView' = [active |-> TRUE, query |-> "construct", at |-> graph,
                     enum |-> enum, sols |-> << >>,
                     response |->
                         Constructed([i \in 1 .. Len(enum) |->
                             <<IriOf(enum[i]), RdfType, IriOf(District)>>])]
    /\ UNCHANGED <<store, doc, lock, pc, local, nreq, acked, readView, crashed>>

\* capacity = s.capacity[0] if s.capacity else 0
CapacityOf(ins, x) ==
    IF ins[x].capacity # << >> THEN ins[x].capacity[1] ELSE 0

\* occupancy = s.currentOccupancy[0] if s.currentOccupancy else 0
OccupancyOf(ins, x) ==
    IF ins[x].currentOccupancy # << >> THEN ins[x].currentOccupancy[1] ELSE 0

\* shelter_info of get_available_shelters
ShelterInfo(ins, x) ==
    [id |-> x,
     name |-> IF ins[x].hasName # << >> THEN ins[x].hasName[1] ELSE x,
     available_space |-> CapacityOf(ins, x) - OccupancyOf(ins, x),
     capacity |-> CapacityOf(ins, x),
     status |-> IF ins[x].status # << >> THEN ins[x].status[1] ELSE Unknown]

\* GET /shelters/available
GetAvailableShelters ==
    /\ ~crashed
    /\ ~readView.active
    /\ readView' =
          [active |-> TRUE, path |-> "/shelters/available", status |-> 200,
           rows |-> {ShelterInfo(inds, x) :
                        x \in {y \in Instances(classes, inds, Shelter) :
                                  HasSpace(CapacityOf(inds, y),
                                           OccupancyOf(inds, y))}},
           at |-> Snapshot]
    /\ UNCHANGED <<store, doc, lock, pc, local, nreq, acked, graph, queryView,
                   crashed>>

----------------------------------------------------------------------------
(* The engine and the API on a loaded document *)

Kandy == <<"Kandy">>
KandyFlood == <<"Kandy", "_", "Flood">>
Landslide1 == <<"Landslide1">>
Shelter2 == <<"Shelter2">>
SuperPills == <<"Resource", "_", "SuperPills">>
Food == <<"Resource", "_", "Food">>
Jane == <<"Volunteer", "_", "Jane", "_", "Doe">>
CampA == <<"Camp", "_", "A">>
Shelter3 == <<"Shelter3">>

\* the individuals of the documents the queries are run on: the initial
\* ones and a district, two disasters, two shelters (one of them full), two
\* resources and a volunteer, as the POST handlers write them; a disaster without
\* severityLevel is what add_location writes for the type "Flood", and Camp_A
\* is what add_disaster writes for the type "Shelter"
QueryInds ==
    {InitInds @@
     (Kandy :> [Blank EXCEPT !.is_a = {District}, !.hasName = <<Kandy>>]) @@
     (KandyFlood :> [Blank EXCEPT !.is_a = {Flood},
                                  !.hasName = << <<"Kandy", " ", "Flood">> >>,
                                  !.severityLevel = sv1,
                                  !.status = IF sv1 = << >> THEN << >>
                                             ELSE <<Active>>,
                                  !.occursIn = loc1]) @@
     (Landslide1 :> [Blank EXCEPT !.is_a = {Landslide},
                                  !.hasName = <<Landslide1>>,
                                  !.severityLevel = sv2,
                                  !.status = <<Active>>,
                                  !.occursIn = <<Colombo>>]) @@
     (Shelter2 :> [Blank EXCEPT !.is_a = {Shelter}, !.hasName = <<Shelter2>>,
                                !.capacity = co[1],
                                !.currentOccupancy = co[2]]) @@
     (Shelter3 :> [Blank EXCEPT !.is_a = {Shelter}, !.hasName = <<Shelter3>>,
                                !.capacity = <<100>>,
                                !.currentOccupancy = <<100>>]) @@
     (SuperPills :> [Blank EXCEPT !.is_a = {MedicalResource},
                                  !.hasName = << <<"SuperPills">> >>,
                                  !.quantityAvailable = <<q1>>]) @@
     (Food :> [Blank EXCEPT !.is_a = {Resource}, !.hasName = << <<"Food">> >>,
                            !.quantityAvailable = <<q2>>]) @@
     (Jane :> [Blank EXCEPT !.is_a = {Volunteer},
                            !.hasName = << <<"Jane", " ", "Doe">> >>,
                            !.contactNumber = << <<"999">> >>,
                            !.skillLevel = <<sk>>,
                            !.assignedTo = sh]) @@
     (IF camp
      THEN CampA :> [Blank EXCEPT !.is_a = {Shelter},
                                  !.hasName = << <<"Camp", " ", "A">> >>,
                                  !.severityLevel = << <<"Medium">> >>,
                                  !.status = <<Active>>,
                                  !.occursIn = <<Colombo>>]
      ELSE << >>) :
        sv1 \in {<< <<"High">> >>, << >>},
        loc1 \in {<<Kandy>>, << >>},
        sv2 \in {<< <<"High">> >>, << <<"Low">> >>},
        co \in {<< <<200>>, <<150>> >>, << <<50>>, <<80>> >>,
                << << >>, << >> >>},
        q1 \in {400, 999},
        q2 \in {1000, 1500},
        sk \in {<<"Advanced">>, <<"Basic">>},
        sh \in {<<Shelter1>>, << >>},
        camp \in BOOLEAN}

\* app.py and the engine have both loaded the same document
InitQuery ==
    /\ inds \in QueryInds
    /\ classes = InitClasses
    /\ doc = [state |-> "complete", classes |-> classes, inds |-> inds]
    /\ graph = [loaded |-> TRUE, classes |-> classes, inds |-> inds]
    /\ lock = NoThread
    /\ pc = [t \in Threads |-> "idle"]
    /\ req = [t \in Threads |-> NoReq]
    /\ new = [t \in Threads |-> None]
    /\ err = [t \in Threads |-> "none"]
    /\ pre = [t \in Threads |-> << >>]
    /\ nreq = 0
    /\ readView = NoView
    /\ acked = {}
    /\ queryView = NoQuery
    /\ crashed = FALSE

NextQuery ==
    \/ \E id \in QueryIds :
          \E enum \in Enumerations(Solutions(graph, id)) :
              RunPredefined(id, enum)
    \/ RunUnknown
    \/ \E text \in Texts : RunText(text)
    \/ \E enum \in Enumerations(DirectType(graph, District)) :
          RunConstruct(enum)
    \/ QueryReturn
    \/ GetAvailableShelters
    \/ ReadReturn

SpecQuery == InitQuery /\ [][NextQuery]_vars

----------------------------------------------------------------------------
(* The GET handlers on a loaded store *)

Monster == <<"Monster">>
Victims == <<"Kandy", "_", "Flood", "_", "victims">>
Tents == <<"Tents">>
Pills2 == <<"Resource", "_", "Pills", "_", "#", "2">>

\* the classes of the read runs: the initial ones and the disaster type that
\* add_disaster has created
ReadClasses == Put(InitClasses, Kaiju, {Disaster})

\* an affected-population record as the document holds it (name and count,
\* or a count only) or as add_disaster writes it for the type
\* "AffectedPopulation" (a name and no count); no record at all is << >>
PopRecords ==
    {[Blank EXCEPT !.is_a = {AffectedPopulation}, !.hasName = n,
                   !.affectedCount = c] :
        n \in {<< <<"Kandy", "_", "Flood", " ", "victims">> >>, << >>},
        c \in {<<120>>, << >>}} \
    {[Blank EXCEPT !.is_a = {AffectedPopulation}]}

\* the stores of the read runs; Tents is what add_disaster writes for the
\* type "Resource", Monster a disaster of the created type; every individual
\* has one declared class
ReadInds ==
    {InitInds @@
     (KandyFlood :> [Blank EXCEPT !.is_a = {Flood},
                                  !.hasName = << <<"Kandy", " ", "Flood">> >>,
                                  !.severityLevel = sv,
                                  !.status = <<Active>>]) @@
     (Jane :> [Blank EXCEPT !.is_a = {Volunteer},
                            !.hasName = << <<"Jane", " ", "Doe">> >>,
                            !.skillLevel = << <<"Basic">> >>,
                            !.assignedTo = sh]) @@
     (SuperPills :> [Blank EXCEPT !.is_a = {MedicalResource},
                                  !.hasName = << <<"SuperPills">> >>,
                                  !.quantityAvailable = <<q>>]) @@
     (Food :> [Blank EXCEPT !.is_a = {Resource}, !.hasName = << <<"Food">> >>,
                            !.quantityAvailable = <<1000>>]) @@
     (Pills2 :> [Blank EXCEPT !.is_a = {Resource},
                              !.hasName = << <<"Pills", " ", "#", "2">> >>,
                              !.quantityAvailable = <<500>>]) @@
     (IF tents
      THEN Tents :> [Blank EXCEPT !.is_a = {Resource}, !.hasName = <<Tents>>,
                                  !.severityLevel = << <<"Medium">> >>,
                                  !.status = <<Active>>]
      ELSE << >>) @@
     (IF monster
      THEN Monster :> [Blank EXCEPT !.is_a = {Kaiju}, !.hasName = <<Monster>>,
                                    !.severityLevel = << <<"High">> >>,
                                    !.status = <<Active>>]
      ELSE << >>) @@
     (IF pop \in PopRecords THEN Victims :> pop ELSE << >>) :
        sv \in {<< <<"High">> >>, << >>},
        sh \in {<<Shelter1>>, << >>},
        q \in {400, 999},
        tents \in BOOLEAN,
        monster \in BOOLEAN,
        pop \in PopRecords \cup {<< >>}}

\* app.py and the engine have both loaded the same document
InitRead ==
    /\ inds \in ReadInds
    /\ classes = ReadClasses
    /\ doc = [state |-> "complete", classes |-> classes, inds |-> inds]
    /\ graph = [loaded |-> TRUE, classes |-> classes, inds |-> inds]
    /\ lock = NoThread
    /\ pc = [t \in Threads |-> "idle"]
    /\ req = [t \in Threads |-> NoReq]
    /\ new = [t \in Threads |-> None]
    /\ err = [t \in Threads |-> "none"]
    /\ pre = [t \in Threads |-> << >>]
    /\ nreq = 0
    /\ readView = NoView
    /\ acked = {}
    /\ queryView = NoQuery
    /\ crashed = FALSE

\* x.__class__.__name__ of an individual with one declared class
ClassName(ins, x) == CHOOSE c \in ins[x].is_a : TRUE

\* volunteer_info of get_volunteers
VolunteerInfo(ins, v) ==
    [id |-> v,
     name |-> IF ins[v].hasName # << >> THEN ins[v].hasName[1] ELSE v,
     assigned_shelter |->
         IF ins[v].assignedTo # << >> /\
            ins[ins[v].assignedTo[1]].hasName # << >>
         THEN ins[ins[v].assignedTo[1]].hasName[1] ELSE <<"Unassigned">>,
     shelter_id |-> IF ins[v].assignedTo # << >> THEN ins[v].assignedTo[1]
                    ELSE None,
     skill_level |-> IF ins[v].skillLevel # << >> THEN ins[v].skillLevel[1]
                     ELSE Unknown,
     contact |-> IF ins[v].contactNumber # << >> THEN ins[v].contactNumber[1]
                 ELSE NA]

\* GET /volunteers
GetVolunteers ==
    /\ ~crashed
    /\ ~readView.active
    /\ readView' = [active |-> TRUE, path |-> "/volunteers", status |-> 200,
                    rows |-> {VolunteerInfo(inds, v) :
                                 v \in Instances(classes, inds, Volunteer)},
                    at |-> Snapshot]
    /\ UNCHANGED <<store, doc, lock, pc, local, nreq, acked, graph, queryView,
                   crashed>>

\* quantity = r.quantityAvailable[0] if r.quantityAvailable else 0
QuantityOf(ins, r) ==
    IF ins[r].quantityAvailable # << >> THEN ins[r].quantityAvailable[1] ELSE 0

\* resource_info of get_low_resources
LowResourceInfo(ins, r) ==
    [name |-> IF ins[r].hasName # << >> THEN ins[r].hasName[1] ELSE r,
     type |-> ClassName(ins, r),
     quantity |-> QuantityOf(ins, r),
     status |-> IF QuantityOf(ins, r) < 500 THEN <<"Critical">> ELSE <<"Low">>]

\* GET /resources/low
GetLowResources ==
    /\ ~crashed
    /\ ~readView.active
    /\ readView' = [active |-> TRUE, path |-> "/resources/low", status |-> 200,
                    rows |-> {LowResourceInfo(inds, r) :
                                 r \in {x \in Instances(classes, inds, Resource) :
                                           BelowLowStock(QuantityOf(inds, x))}},
                    at |-> Snapshot]
    /\ UNCHANGED <<store, doc, lock, pc, local, nreq, acked, graph, queryView,
                   crashed>>

\* the five classes that disasters_by_type counts
StatTypes == {Flood, Landslide, Cyclone, Drought, Tsunami}

\* the severities that disasters_by_severity counts
StatSeverities == {<<"High">>, <<"Medium">>, <<"Low">>}

\* stats of get_statistics (the counts of disasters)
Statistics(cls, ins) ==
    [total_disasters |-> Cardinality(Instances(cls, ins, Disaster)),
     active_disasters |->
         Cardinality({d \in Instances(cls, ins, Disaster) :
                         ins[d].status # << >> /\ ins[d].status[1] = Active}),
     disasters_by_type |->
         [ty \in StatTypes |-> Cardinality(Instances(cls, ins, ty))],
     disasters_by_severity |->
         [sv \in StatSeverities |->
             Cardinality({d \in Instances(cls, ins, Disaster) :
                             ins[d].severityLevel # << >> /\
                             ins[d].severityLevel[1] = sv})]]

\* GET /statistics
GetStatistics ==
    /\ ~crashed
    /\ ~readView.active
    /\ readView' = [active |-> TRUE, path |-> "/statistics", status |-> 200,
                    rows |-> {Statistics(classes, inds)}, at |-> Snapshot]
    /\ UNCHANGED <<store, doc, lock, pc, local, nreq, acked, graph, queryView,
                   crashed>>

NextRead ==
    \/ GetDisasters
    \/ GetVolunteers
    \/ GetLowResources
    \/ GetStatistics
    \/ ReadReturn
    \/ \E enum \in Enumerations(Solutions(graph, "critical_resources")) :
          RunPredefined("critical_resources", enum)
    \/ QueryReturn

SpecRead == InitRead /\ [][NextRead]_vars

----------------------------------------------------------------------------
(* Restart: a new process loads the document that the last save left *)

\* the name owlready2 gives an entity it loads: the part of its IRI after the
\* last "#"
LoadName(id) == LastSegment(IriOf(id))

\* the references of a property, by the names of the loaded entities
LoadRefs(refs) == [i \in DOMAIN refs |-> LoadName(refs[i])]

LoadClasses(cls) ==
    [n \in {LoadName(c) : c \in DOMAIN cls} |->
        {LoadName(p) : p \in cls[CHOOSE c \in DOMAIN cls : LoadName(c) = n]}]

LoadInds(ins) ==
    [n \in {LoadName(i) : i \in DOMAIN ins} |->
        LET old == ins[CHOOSE i \in DOMAIN ins : LoadName(i) = n]
        IN  [old EXCEPT !.is_a = {LoadName(c) : c \in @},
                        !.occursIn = LoadRefs(@),
                        !.assignedTo = LoadRefs(@),
                        !.locatedIn = LoadRefs(@)]]

\* onto = get_ontology(ONTOLOGY_PATH).load() in the process started after the
\* old one ended; the handlers of the new process are not followed
Restart ==
    /\ crashed
    /\ classes = << >>
    /\ doc.state = "complete"
    /\ classes' = LoadClasses(doc.classes)
    /\ inds' = LoadInds(doc.inds)
    /\ UNCHANGED <<doc, lock, pc, local, nreq, acked, readView, graph,
                   queryView, crashed>>

Zone2 == <<"Zone", " ", "#", "2">>

\* the requests of the restart runs: locations and a disaster that may
\* occur in one of them; one location name holds a "#"
CodecRequests ==
    {[NoReq EXCEPT !.kind = "location", !.name = n, !.type = District,
                   !.ref = l]
        : n \in {Kandy, Zone2}, l \in ParentRefs} \cup
    {[NoReq EXCEPT !.kind = "disaster", !.name = <<"Kandy", " ", "Flood">>,
                   !.type = Flood, !.ref = l, !.severity = <<"High">>]
        : l \in {None, Kandy, Replace(Zone2)}}

NextCodec ==
    \/ \E t \in Threads : Arrive(t)
    \/ \E t \in Threads, r \in CodecRequests : Enter(t, r)
    \/ \E t \in Threads : DisasterClass(t)
    \/ \E t \in Threads : DisasterCreate(t)
    \/ \E t \in Threads : DisasterName(t)
    \/ \E t \in Threads : DisasterSeverity(t)
    \/ \E t \in Threads : DisasterStatus(t)
    \/ \E t \in Threads : DisasterLink(t)
    \/ \E t \in Threads : LocationClass(t)
    \/ \E t \in Threads : LocationCreate(t)
    \/ \E t \in Threads : LocationName(t)
    \/ \E t \in Threads : LocationLink(t)
    \/ \E t \in Threads : SaveOpen(t)
    \/ \E t \in Threads : SaveError(t)
    \/ \E t \in Threads : SaveWrite(t)
    \/ \E t \in Threads : Respond201(t)
    \/ \E t \in Threads : Respond400(t)
    \/ Crash
    \/ Restart

SpecCodec == Init /\ [][NextCodec]_vars

----------------------------------------------------------------------------
(* Startup: app.py and the SPARQL engine open the document they find *)

\* The documents a starting process may find: a complete one; one cut off
\* inside its XML ("partial"); one of zero bytes, as open(file, "wb") leaves
\* it ("empty"); none at all ("missing").
StartupDocs ==
    {[state |-> s, classes |-> InitClasses, inds |-> d] :
        s \in {"complete", "partial"}, d \in QueryInds} \cup
    {[state |-> s, classes |-> << >>, inds |-> << >>] :
        s \in {"empty", "missing"}}

\* Thread 1 is the main thread of the app.py process and thread 2 that of
\* the process that constructs the SPARQLEngine; both are at their import.
InitStartup ==
    /\ doc \in StartupDocs
    /\ classes = << >>
    /\ inds = << >>
    /\ lock = NoThread
    /\ pc = [t \in Threads |-> "import"]
    /\ req = [t \in Threads |-> NoReq]
    /\ new = [t \in Threads |-> None]
    /\ err = [t \in Threads |-> "none"]
    /\ pre = [t \in Threads |-> << >>]
    /\ nreq = 0
    /\ readView = NoView
    /\ acked = {}
    /\ graph = NoGraph
    /\ queryView = NoQuery
    /\ crashed = FALSE

\* what get_ontology(ONTOLOGY_PATH).load() does with a document in state s:
\* open() raises for a missing file, the RDF/XML parser raises for a
\* document cut off inside its XML, and a document of zero bytes does not
\* start with "<", is taken for N-Triples and is read as no triples at all
LoadOutcome(s) ==
    CASE s = "complete" -> "loaded"
      [] s = "empty" -> "loaded"
      [] s = "partial" -> "OwlReadyOntologyParsingError"
      [] s = "missing" -> "FileNotFoundError"

\* what Graph.parse(ontology_path, format="xml") does with it
ParseOutcome(s) ==
    CASE s = "complete" -> "loaded"
      [] s \in {"empty", "partial"} -> "SAXParseException"
      [] s = "missing" -> "FileNotFoundError"

\* onto = get_ontology(ONTOLOGY_PATH).load() at the import of app.py: the
\* process serves requests when load returns and ends when load raises
AppStart ==
    /\ ~crashed
    /\ pc[1] = "import"
    /\ IF LoadOutcome(doc.state) = "loaded"
       THEN /\ classes' = LoadClasses(doc.classes)
            /\ inds' = LoadInds(doc.inds)
            /\ pc' = [pc EXCEPT ![1] = "idle"]
            /\ UNCHANGED <<err, crashed>>
       ELSE /\ err' = [err EXCEPT ![1] = LoadOutcome(doc.state)]
            /\ pc' = [pc EXCEPT ![1] = "exit"]
            /\ crashed' = TRUE
            /\ UNCHANGED store
    /\ UNCHANGED <<doc, lock, req, new, pre, nreq, acked, views>>

\* SPARQLEngine.__init__
EngineStart ==
    /\ pc[2] = "import"
    /\ IF ParseOutcome(doc.state) = "loaded"
       THEN /\ graph' = [loaded |-> TRUE, classes |-> doc.classes,
                         inds |-> doc.inds]
            /\ pc' = [pc EXCEPT ![2] = "idle"]
            /\ UNCHANGED err
       ELSE /\ err' = [err EXCEPT ![2] = ParseOutcome(doc.state)]
            /\ pc' = [pc EXCEPT ![2] = "exit"]
            /\ UNCHANGED graph
    /\ UNCHANGED <<store, doc, lock, req, new, pre, nreq, acked, readView,
                   queryView, crashed>>

NextStartup ==
    \/ AppStart
    \/ EngineStart

SpecStartup == InitStartup /\ [][NextStartup]_vars

----------------------------------------------------------------------------
(* Properties *)

Ids(rows) == {r.id : r \in rows}

\* the thread is inside its `with onto:` block
InWith(t) == pc[t] \notin {"idle", "enter"}

\* the property values lines 349-362 / 384-391 / 412-413 / 459-464 assign
\* for request r, as they must appear on individual x
HasRequested(x, r, ins) ==
    /\ x.hasName = <<r.name>>
    /\ r.kind = "disaster" =>
          /\ x.severityLevel = <<r.severity>>
          /\ x.status = <<Active>>
          /\ r.date # None => x.dateOccurred = <<r.date>>
          /\ r.ref \in DOMAIN ins => x.occursIn = <<r.ref>>
    /\ r.kind = "volunteer" =>
          /\ x.contactNumber = <<r.contact>>
          /\ x.skillLevel = <<r.skill>>
          /\ r.ref \in DOMAIN ins => x.assignedTo = <<r.ref>>
    /\ r.kind = "resource" => x.quantityAvailable = <<r.quantity>>
    /\ r.kind = "location" => (r.ref \in DOMAIN ins => x.locatedIn = <<r.ref>>)

\* no two handlers are inside their `with onto:` blocks at once, and the
\* document is being rewritten only by the lock holder
MutationsSerialized ==
    /\ \A t, u \in Threads : InWith(t) /\ InWith(u) => t = u
    /\ \A t \in Threads : InWith(t) => lock = t
    /\ (~crashed /\ doc.state = "partial") => \E t \in Threads : pc[t] = "write"

\* C1: mutations are serialized by the write lock, and so, as long as the
\* process has not crashed, the document (outside the lock holder's rewrite
\* of it) is complete and is the store after a whole number of completed
\* mutations: a class that a request created on demand is there together
\* with the individual the same request created of it.
C1_PersistedWholeMutations ==
    ~crashed =>
        /\ MutationsSerialized
        /\ (\A t \in Threads : pc[t] # "write") =>
              /\ doc.state = "complete"
              /\ \A c \in DOMAIN doc.classes \ DOMAIN InitClasses :
                    \E i \in DOMAIN doc.inds : c \in doc.inds[i].is_a

\* C2: a GET /disasters response never lists a disaster whose severityLevel
\* or status is not set yet (every disaster of a completed add has both).
C2_ReadersSeeWholeInstances ==
    readView.active =>
        \A r \in readView.rows : r.severity # NA /\ r.status # Unknown

\* C3: when a mutation request ends in the error response, the store is as
\* it was when the request entered its `with onto:` block.
C3_FailureLeavesStoreUntouched ==
    \A t \in Threads : pc[t] = "fail" =>
        classes = pre[t].classes /\ inds = pre[t].inds

\* C4: after a crash the document is a complete snapshot.
C4_CrashLeavesCompleteDocument ==
    crashed => doc.state = "complete"

C7_DuplicateIdFails ==
    \A t \in Threads : pc[t] = "done" => new[t] \notin DOMAIN pre[t].inds

\* C9: add_disaster with create_new_type and a type name that is no
\* registered class (and a name) fails only if the save fails; when it
\* succeeds the class is a direct subclass of Disaster and the individual has
\* it as a type and is listed under Disaster.
C9_NewTypeAccepted ==
    \A t \in Threads :
        (/\ InWith(t)
         /\ req[t].kind = "disaster"
         /\ req[t].create
         /\ req[t].name # None
         /\ req[t].type \notin DOMAIN pre[t].classes) =>
            /\ pc[t] = "fail" => err[t] = "OSError"
            /\ pc[t] = "done" =>
                  /\ classes[req[t].type] = {Disaster}
                  /\ req[t].type \in inds[new[t]].is_a
                  /\ new[t] \in Instances(classes, inds, Disaster)

\* C10: add_disaster with create_new_type and a type name that already names
\* a class whose parents are not {Disaster} does not succeed.
C10_DuplicateClassRejected ==
    \A t \in Threads :
        (/\ req[t].kind = "disaster"
         /\ req[t].create
         /\ req[t].type \in DOMAIN pre[t].classes
         /\ pre[t].classes[req[t].type] # {Disaster}) => pc[t] # "done"

\* C6: a query result holds every disaster whose add request had been
\* answered 201 when the query ran.
C6_QuerySeesAcknowledged ==
    queryView.active =>
        queryView.expect \subseteq {r.disaster : r \in queryView.rows}

\* C8: GET /disasters lists every individual of the store one of whose
\* declared types reaches Disaster through subclass edges, and the
\* all_disasters query returns every individual of its graph one of whose
\* declared types is Disaster or a class below it.
C8_TransitiveMembership ==
    /\ readView.active =>
          \A i \in DOMAIN readView.at.inds :
              (\E c \in readView.at.inds[i].is_a :
                  Disaster \in Ancestors(readView.at.classes, {c}))
                  => i \in Ids(readView.rows)
    /\ queryView.active =>
          \A i \in DOMAIN queryView.at.inds :
              (queryView.at.inds[i].is_a \cap
                  Descendants(queryView.at.classes, {Disaster}) # {})
                  => i \in {r.disaster : r \in queryView.rows}

\* C8 witness: the listing and the query result both hold an individual of
\* the dynamically created class and one of a subclass of Flood.
C8_Witness ==
    /\ readView.active /\ queryView.active
    /\ \E i \in Ids(readView.rows) : Kaiju \in readView.at.inds[i].is_a
    /\ \E r \in queryView.rows : Kaiju \in queryView.at.inds[r.disaster].is_a
    /\ Flood2023 \in Ids(readView.rows)
    /\ \E r \in queryView.rows : r.disaster = Flood2023

\* the individuals of graph g that match the required patterns and pass the
\* filter of the predefined query id
Required(g, id) ==
    CASE id = "all_disasters" -> Instances(g.classes, g.inds, Disaster)
      [] id = "critical_resources" ->
           {x \in Instances(g.classes, g.inds, Resource) :
               \E i \in DOMAIN g.inds[x].quantityAvailable :
                   g.inds[x].quantityAvailable[i] < 1000}
      [] id = "district_disasters" ->
           {x \in DOMAIN g.inds : District \in g.inds[x].is_a}
      [] id = "available_shelters" ->
           {x \in DOMAIN g.inds :
               /\ Shelter \in g.inds[x].is_a
               /\ \E i \in DOMAIN g.inds[x].capacity :
                     \E j \in DOMAIN g.inds[x].currentOccupancy :
                         g.inds[x].capacity[i] > g.inds[x].currentOccupancy[j]}
      [] id = "shelter_capacity" ->
           {x \in DOMAIN g.inds : Shelter \in g.inds[x].is_a}
      [] id = "advanced_volunteers" ->
           {x \in DOMAIN g.inds :
               /\ Volunteer \in g.inds[x].is_a
               /\ \E i \in DOMAIN g.inds[x].skillLevel :
                     g.inds[x].skillLevel[i] = <<"Advanced">>}

\* no individual that list refs references has a name
NoNamed(g, refs) ==
    \A i \in DOMAIN refs :
        refs[i] \in DOMAIN g.inds => g.inds[refs[i]].hasName = << >>

\* the columns of query id whose OPTIONAL block has no match for x
Unmatched(g, id, x) ==
    CASE id = "all_disasters" ->
           {c \in {2} : g.inds[x].hasName = << >>} \cup
           {c \in {3} : g.inds[x].severityLevel = << >>} \cup
           {c \in {4} : NoNamed(g, g.inds[x].occursIn)}
      [] id = "advanced_volunteers" ->
           {c \in {2} : g.inds[x].hasName = << >>} \cup
           {c \in {3, 4} : NoNamed(g, g.inds[x].assignedTo)} \cup
           {c \in {5} : g.inds[x].contactNumber = << >>}
      [] id = "shelter_capacity" ->
           {c \in {2} : g.inds[x].hasName = << >>} \cup
           {c \in {3} : g.inds[x].capacity = << >>} \cup
           {c \in {4} : g.inds[x].currentOccupancy = << >>}
      [] id = "available_shelters" ->
           {c \in {2} : g.inds[x].hasName = << >>} \cup
           {c \in {6} : g.inds[x].status = << >>}
      [] OTHER -> {c \in {2} : g.inds[x].hasName = << >>}

\* the rows of a response that are about individual x
RowsOf(response, x) ==
    {i \in 2 .. Len(response.results) : response.results[i][1] = x}

\* C12: in the response of a predefined query, every individual that matches
\* the required patterns and passes the filter has at least one row, whether
\* or not its OPTIONAL blocks match, and in each of its rows the columns of
\* an OPTIONAL block without a match read "N/A".
C12_OptionalKeepsRows ==
    (queryView.active /\ queryView.query \in QueryIds) =>
        \A x \in Required(queryView.at, queryView.query) :
            /\ RowsOf(queryView.response, x) # {}
            /\ \A i \in RowsOf(queryView.response, x) :
                  \A c \in Unmatched(queryView.at, queryView.query, x) :
                      queryView.response.results[i][c] = NA

\* C12 witness: all_disasters has answered on a graph in which Kandy_Flood
\* has neither a severity nor a location; its row is there with "N/A" in
\* both columns and its name in the second.
C12_Witness ==
    /\ queryView.active /\ queryView.query = "all_disasters"
    /\ queryView.at.inds[KandyFlood].severityLevel = << >>
    /\ queryView.at.inds[KandyFlood].occursIn = << >>
    /\ \E i \in RowsOf(queryView.response, KandyFlood) :
          /\ queryView.response.results[i][2] = <<"Kandy", " ", "Flood">>
          /\ queryView.response.results[i][3] = NA
          /\ queryView.response.results[i][4] = NA

\* the first cells of the data rows of a response
Subjects(response) ==
    {response.results[i][1] : i \in 2 .. Len(response.results)}

\* C13: the critical_resources query returns exactly the individuals of
\* class Resource or of a class below it whose quantityAvailable is strictly
\* less than 1000, each with that quantity in its row.
C13_LowStockExactly ==
    (queryView.active /\ queryView.query = "critical_resources") =>
        /\ Subjects(queryView.response) =
              {x \in Instances(queryView.at.classes, queryView.at.inds,
                               Resource) :
                  \E i \in DOMAIN queryView.at.inds[x].quantityAvailable :
                      queryView.at.inds[x].quantityAvailable[i] < 1000}
        /\ \A i \in 2 .. Len(queryView.response.results) :
              \E q \in 0 .. 999 :
                  /\ queryView.response.results[i][3] = <<ToString(q)>>
                  /\ queryView.at.inds[queryView.response.results[i][1]]
                        .quantityAvailable = <<q>>

\* C13 witness: the query has answered on a graph with a MedicalResource of
\* quantity 999, which is in the result, and a Resource of quantity 1000,
\* which is not.
C13_Witness ==
    /\ queryView.active /\ queryView.query = "critical_resources"
    /\ queryView.at.inds[SuperPills].quantityAvailable = <<999>>
    /\ queryView.at.inds[Food].quantityAvailable = <<1000>>
    /\ SuperPills \in Subjects(queryView.response)
    /\ Food \notin Subjects(queryView.response)

\* the number of disasters of graph g whose occursIn references district
DisastersIn(g, district) ==
    Cardinality({x \in Instances(g.classes, g.inds, Disaster) :
                    \E i \in DOMAIN g.inds[x].occursIn :
                        g.inds[x].occursIn[i] = district})

\* C14: the district_disasters query returns exactly one row per district;
\* the count in the row is the number of disasters whose occursIn references
\* the district, 0 when there is none; the rows are in descending order of
\* the count.  (Violated: the query counts every subject of d:occursIn, and
\* add_disaster writes occursIn on an individual of class Shelter when the
\* request names that class as its type.)
C14_CountPerDistrict ==
    (queryView.active /\ queryView.query = "district_disasters") =>
        LET res == queryView.response.results
            g == queryView.at
        IN  /\ Subjects(queryView.response) =
                  {x \in DOMAIN g.inds : District \in g.inds[x].is_a}
            /\ \A i, j \in 2 .. Len(res) : res[i][1] = res[j][1] => i = j
            /\ \A i \in 2 .. Len(res) :
                  res[i][3] = <<ToString(DisastersIn(g, res[i][1]))>>
            /\ \A i \in 2 .. Len(res) - 1 :
                  DisastersIn(g, res[i][1]) >= DisastersIn(g, res[i + 1][1])

\* the shelters of ins whose recorded capacity is strictly greater than
\* their recorded occupancy
WithSpace(ins, shelters) ==
    {x \in shelters :
        /\ ins[x].capacity # << >>
        /\ ins[x].currentOccupancy # << >>
        /\ ins[x].capacity[1] > ins[x].currentOccupancy[1]}

\* C15: the available_shelters query and GET /shelters/available return
\* exactly the shelters whose capacity is strictly greater than their
\* occupancy, each with available = capacity - occupancy, which is positive;
\* a shelter whose occupancy equals its capacity is in neither result.
C15_AvailableShelters ==
    /\ (queryView.active /\ queryView.query = "available_shelters") =>
          LET res == queryView.response.results
              g == queryView.at
          IN  /\ Subjects(queryView.response) =
                    WithSpace(g.inds, {x \in DOMAIN g.inds :
                                          Shelter \in g.inds[x].is_a})
              /\ \A i \in 2 .. Len(res) :
                    LET free == g.inds[res[i][1]].capacity[1] -
                                g.inds[res[i][1]].currentOccupancy[1]
                    IN  free > 0 /\ res[i][5] = <<ToString(free)>>
    /\ readView.active =>
          /\ {r.id : r \in readView.rows} =
                WithSpace(readView.at.inds,
                          Instances(readView.at.classes, readView.at.inds,
                                    Shelter))
          /\ \A r \in readView.rows :
                /\ r.available_space > 0
                /\ r.available_space =
                      readView.at.inds[r.id].capacity[1] -
                      readView.at.inds[r.id].currentOccupancy[1]

\* C15 witness: Shelter2 has capacity 200 and occupancy 150, Shelter3 is
\* full; the query and the endpoint both return Shelter2 with 50 free places
\* and neither returns Shelter3.
C15_Witness ==
    /\ queryView.active /\ queryView.query = "available_shelters"
    /\ readView.active
    /\ queryView.response.count = 1
    /\ queryView.response.results[2] =
          <<Shelter2, Shelter2, <<"200">>, <<"150">>, <<"50">>, NA>>
    /\ Shelter3 \notin Subjects(queryView.response)
    /\ \E r \in readView.rows : r.id = Shelter2 /\ r.available_space = 50
    /\ \A r \in readView.rows : r.id # Shelter3
    /\ readView.at.inds[Shelter3].capacity =
          readView.at.inds[Shelter3].currentOccupancy

\* C17: a query text that graph.query or the loop over its rows rejects,
\* and an identifier that is not in the catalog, are answered with
\* success = false, an error message and an empty result list.
C17_FailureIsStructured ==
    (queryView.active /\ queryView.query \in Texts \cup {"unknown"}) =>
        /\ queryView.response.success = FALSE
        /\ queryView.response.error \in
              {"ParseException", "URLError", "TypeError", "Query not found"}
        /\ queryView.response.results = << >>

\* C17 witness: a query whose SERVICE call failed after the header row had
\* been appended to the list was answered with an empty result list.
C17_Witness ==
    /\ queryView.active /\ queryView.query = "service"
    /\ Raised(queryView.query).results # << >>
    /\ queryView.response =
          [success |-> FALSE, error |-> "URLError", results |-> << >>]

\* C18: no call of run_query or run_predefined_query, successful or
\* failing, changes the engine's graph.
C18_QueryKeepsGraph ==
    [][(queryView'.active /\ ~queryView.active) => graph' = graph]_vars

\* C18 witness: a SPARQL update passed to run_query has been answered with
\* a failure and the graph is the one the call started on.
C18_Witness ==
    /\ queryView.active /\ queryView.query = "update"
    /\ queryView.response.success = FALSE
    /\ graph = queryView.at

\* the queries of the catalog with an ORDER BY clause
Ordered ==
    {"all_disasters", "critical_resources", "district_disasters",
     "available_shelters", "shelter_capacity"}

\* the ORDER BY key of row i of the answered query
KeyAt(i) == SortKey(queryView.sols[i], queryView.query)

\* the position of solution sol in the order the evaluation enumerated
PlaceOf(sol) == CHOOSE k \in DOMAIN queryView.enum : queryView.enum[k] = sol

\* the rows are the enumerated solutions, and rows with equal keys are in
\* the order of enumeration
StableRows ==
    /\ Len(queryView.sols) = Len(queryView.enum)
    /\ {queryView.sols[i] : i \in DOMAIN queryView.sols} =
          {queryView.enum[i] : i \in DOMAIN queryView.enum}
    /\ \A i, j \in DOMAIN queryView.sols :
          (i < j /\ KeyAt(i) = KeyAt(j)) =>
              PlaceOf(queryView.sols[i]) < PlaceOf(queryView.sols[j])

\* C19 (as stated): ORDER BY is a stable sort in which the rows with an
\* unbound sort key come after all rows with a bound one, in ascending and
\* in descending order.
C19_UnboundSortLast ==
    (queryView.active /\ queryView.query \in Ordered) =>
        /\ StableRows
        /\ \A i, j \in DOMAIN queryView.sols :
              (i < j /\ KeyAt(i) = Unbound) => KeyAt(j) = Unbound

\* C19 (amended): ORDER BY is a stable sort; among rows with a bound key a
\* smaller key comes first in ascending order and a larger one first in
\* descending order; the rows with an unbound key come before all others in
\* ascending order and after all others in descending order.
C19_UnboundSortLowest ==
    (queryView.active /\ queryView.query \in Ordered) =>
        /\ StableRows
        /\ \A i, j \in DOMAIN queryView.sols :
              i < j =>
                  IF Descending(queryView.query)
                  THEN /\ KeyAt(i) = Unbound => KeyAt(j) = Unbound
                       /\ (KeyAt(i) # Unbound /\ KeyAt(j) # Unbound)
                             => KeyAt(i)[1] >= KeyAt(j)[1]
                  ELSE /\ KeyAt(j) = Unbound => KeyAt(i) = Unbound
                       /\ (KeyAt(i) # Unbound /\ KeyAt(j) # Unbound)
                             => KeyAt(i)[1] <= KeyAt(j)[1]

\* C19 witness: all_disasters enumerated Landslide1 and Flood2023, both of
\* severity "Low", and then Kandy_Flood, which has no severity; the response
\* lists Kandy_Flood first and the other two in the order of enumeration.
C19_Witness ==
    /\ queryView.active /\ queryView.query = "all_disasters"
    /\ Len(queryView.enum) = 3
    /\ queryView.enum[1].disaster = <<Landslide1>>
    /\ queryView.enum[2].disaster = <<Flood2023>>
    /\ queryView.enum[3].disaster = <<KandyFlood>>
    /\ queryView.enum[1].severity = queryView.enum[2].severity
    /\ queryView.response.results[2][1] = KandyFlood
    /\ queryView.response.results[2][3] = NA
    /\ queryView.response.results[3][1] = Landslide1
    /\ queryView.response.results[4][1] = Flood2023

\* C20: the store that a restarted process loads from the document is the
\* store the document was saved from: the same classes with the same
\* parents, the same individuals with the same declared types and the same
\* property value lists.
C20_RoundTrip ==
    (crashed /\ classes # << >>) =>
        /\ classes = doc.classes
        /\ inds = doc.inds

\* C21: a process that starts on a missing or malformed document ends its
\* initialization with a reported error; app.py serves requests, and the
\* engine answers queries, only on the store of a complete document.
C21_StartupNeedsCompleteDocument ==
    /\ pc[1] = "idle" =>
          /\ doc.state = "complete"
          /\ classes = LoadClasses(doc.classes)
          /\ inds = LoadInds(doc.inds)
    /\ pc[2] = "idle" =>
          /\ doc.state = "complete"
          /\ graph.loaded
    /\ \A t \in {1, 2} :
          (pc[t] # "import" /\ doc.state # "complete") => err[t] # "none"

\* C22: whatever properties the individuals of the store lack, every read
\* endpoint answers with success.
C22_ReadsNeverFail ==
    readView.active => readView.status = 200

\* C23: in every successful response of run_query the results are a header
\* row followed by one row per solution (or triple) of the query, and count
\* is the number of those rows.
C23_HeaderThenRows ==
    (queryView.active /\ queryView.response.success) =>
        /\ Len(queryView.response.results) = Len(queryView.enum) + 1
        /\ queryView.response.count = Len(queryView.enum)
        /\ queryView.query \in QueryIds =>
              queryView.response.results[1] = Header(queryView.query)

\* C24: add_location with create_new_type and a type name that is no
\* registered class (and a name) fails only if the save fails; when it
\* succeeds the class is a direct subclass of Location and the new location
\* has it as a declared type.
C24_NewLocationType ==
    \A t \in Threads :
        (/\ InWith(t)
         /\ req[t].kind = "location"
         /\ req[t].create
         /\ req[t].name # None
         /\ req[t].type \notin DOMAIN pre[t].classes) =>
            /\ pc[t] = "fail" => err[t] = "OSError"
            /\ pc[t] = "done" =>
                  /\ classes[req[t].type] = {Location}
                  /\ req[t].type \in inds[new[t]].is_a

\* C25: every individual whose add_disaster request was answered 201 is an
\* instance of Disaster in the store, through one of its declared types.
C25_AddedDisasterIsDisaster ==
    ~crashed =>
        \A a \in acked :
            a.kind = "disaster" => a.id \in Instances(classes, inds, Disaster)

\* the class under which the individuals of a kind of add request are filed
KindRoot(kind) ==
    CASE kind = "disaster" -> Disaster
      [] kind = "volunteer" -> Volunteer
      [] kind = "resource" -> Resource
      [] kind = "location" -> Location

\* C26: a step of an add handler leaves every existing individual that is
\* an instance of another kind's class, and not of its own kind's, with the
\* declared types and property values it had.
C26_OtherKindsUntouched ==
    [][\A t \in Threads :
          (lock = t /\ req[t].kind # "none" /\ ~crashed') =>
              \A x \in DOMAIN inds :
                  (/\ x \notin Instances(classes, inds, KindRoot(req[t].kind))
                   /\ \E k \in {"disaster", "volunteer", "resource", "location"} :
                         x \in Instances(classes, inds, KindRoot(k))) =>
                      /\ x \in DOMAIN inds'
                      /\ inds'[x] = inds[x]]_vars

\* the class an add request of a kind falls back to
DefaultClass(kind) ==
    CASE kind = "disaster" -> Flood
      [] kind = "resource" -> Resource
      [] kind = "location" -> District

\* C27: an add_disaster, add_resource or add_location request (with a name)
\* whose type names nothing in the store and that does not ask for class
\* creation fails only if the save fails; when it succeeds the new
\* individual is a Flood, a Resource or a District.
C27_UnknownTypeDefaults ==
    \A t \in Threads :
        (/\ InWith(t)
         /\ req[t].kind \in {"disaster", "resource", "location"}
         /\ ~req[t].create
         /\ req[t].name # None
         /\ req[t].type \notin DOMAIN pre[t].classes \cup DOMAIN pre[t].inds) =>
            /\ pc[t] = "fail" => err[t] = "OSError"
            /\ pc[t] = "done" => DefaultClass(req[t].kind) \in inds[new[t]].is_a

\* C28: in every /statistics response the counts of disasters_by_type sum
\* to total_disasters, and active_disasters and the sum of the counts of
\* disasters_by_severity are at most total_disasters.
C28_StatisticsConsistent ==
    (readView.active /\ readView.path = "/statistics") =>
        \A r \in readView.rows :
            /\ Sum(r.disasters_by_type, StatTypes) = r.total_disasters
            /\ r.active_disasters <= r.total_disasters
            /\ Sum(r.disasters_by_severity, StatSeverities) <= r.total_disasters

\* the name under which a solution of critical_resources shows its
\* resource: the bound ?name, or the resource's identifier
ResourceLabel(sol) == IF sol.name = Unbound THEN sol.resource[1] ELSE sol.name[1]

\* C29: over the same store contents, /resources/low and the
\* critical_resources query return the same set of resources.
C29_LowListingsAgree ==
    (/\ readView.active /\ readView.path = "/resources/low"
     /\ queryView.active /\ queryView.query = "critical_resources"
     /\ readView.at.inds = queryView.at.inds
     /\ readView.at.classes = queryView.at.classes) =>
        {r.name : r \in readView.rows} =
            {ResourceLabel(queryView.sols[i]) : i \in DOMAIN queryView.sols}

\* C30: in the rows of the critical_resources response, the cell of an
\* unbound name reads "N/A" and the cell of a bound name or quantity is the
\* literal's own text, character for character.
C30_LiteralsUnchanged ==
    (queryView.active /\ queryView.query = "critical_resources") =>
        \A i \in DOMAIN queryView.sols :
            /\ queryView.response.results[i + 1][2] =
                  IF queryView.sols[i].name = Unbound THEN NA
                  ELSE queryView.sols[i].name[1]
            /\ queryView.response.results[i + 1][3] =
                  <<ToString(queryView.sols[i].quantity[1])>>

====
